---- MODULE Spec2Model ----
(***************************************************************************)
(* A model of lib/streamlit/magic.py: the syntax-tree pass that turns bare *)
(* expression statements into calls of __streamlit__._transparent_write    *)
(* and injects `import streamlit as __streamlit__` at the root.            *)
(*                                                                         *)
(* Trees are records tagged by `kind` (the Python node type); statement    *)
(* sequences are TLA+ sequences.  Python indices are 0-based: the element  *)
(* body[i] of the source is body[i + 1] here.                              *)
(*                                                                         *)
(* The node types are those the source tests for: a string literal parses *)
(* to ast.Str, as it does in the Python 3 versions the source was written *)
(* for.  Source positions (ast.fix_missing_locations) are not modelled.    *)
(***************************************************************************)
EXTENDS Integers, Sequences, FiniteSets, TLC

VARIABLES
    tree,     \* the ast.Module being rewritten (add_magic's local `tree`)
    orig,     \* history: the tree as it was before the latest operation
    op,       \* history: the latest operation applied to the tree
    runs,     \* history: number of root passes (_modify_ast_subtree, is_root)
    injects,  \* history: number of direct _insert_import_statement calls
    stack,    \* SpecWalk: the call stack of _modify_ast_subtree activations
    log,      \* SpecWalk history: the sequences entered / the injection, in order
    code,     \* SpecE2E: add_magic's `code` argument (lines of tokens)
    py3,      \* SpecE2E: what compatibility.is_running_py3() answers
    ret       \* SpecE2E: add_magic's return value

vars == <<tree, orig, op, runs, injects, stack, log, code, py3, ret>>

----------------------------------------------------------------------------
(* Bounds of the model.                                                    *)

\* longest run of simple statements that opens a generated root sequence
MaxRootLen == 2
\* number of operations (root passes, direct injections) applied to a tree
MaxOps == 2
\* number of source lines of a generated program text
MaxLines == 4

----------------------------------------------------------------------------
(* Syntax-tree nodes (Python's ast module, as magic.py uses it).           *)

None == [kind |-> "None"]

Name(id) == [kind |-> "Name", id |-> id, ctx |-> "Load"]
StoreName(id) == [kind |-> "Name", id |-> id, ctx |-> "Store"]
Str(s) == [kind |-> "Str", s |-> s]
Num(n) == [kind |-> "Num", n |-> n]
Tuple(elts) == [kind |-> "Tuple", elts |-> elts, ctx |-> "Load"]
Attribute(value, attr) ==
    [kind |-> "Attribute", value |-> value, attr |-> attr, ctx |-> "Load"]
Call(func, args) ==
    [kind |-> "Call", func |-> func, args |-> args, keywords |-> <<>>,
     kwargs |-> None, starargs |-> None]

Expr(value) == [kind |-> "Expr", value |-> value]
Assign(target, value) == [kind |-> "Assign", target |-> target, value |-> value]
Pass == [kind |-> "Pass"]
Import(name, asname) == [kind |-> "Import", name |-> name, asname |-> asname]
ImportFrom(module, name) ==
    [kind |-> "ImportFrom", module |-> module, name |-> name]
FunctionDef(body) == [kind |-> "FunctionDef", body |-> body]
With(body) == [kind |-> "With", body |-> body]
ExceptHandler(body) == [kind |-> "ExceptHandler", body |-> body]
Try(body, handlers, orelse, finalbody) ==
    [kind |-> "Try", body |-> body, handlers |-> handlers,
     orelse |-> orelse, finalbody |-> finalbody]
\* if / for / while / class: block statements the pass has no case for
Compound(kind, body) == [kind |-> kind, body |-> body]
Module(body) == [kind |-> "Module", body |-> body]

----------------------------------------------------------------------------
(* magic.py                                                                *)

\* mutant: the element at the index is overwritten, nothing is inserted
ListInsert_Overwrite(s, index, x) ==
    IF index < Len(s) THEN [s EXCEPT ![index + 1] = x] ELSE <<x>>

\* list.insert(index, x) for a 0-based index (clamped to the length)
ListInsert(s, index, x) ==
    LET k == IF index > Len(s) THEN Len(s) ELSE index
    IN  SubSeq(s, 1, k) \o <<x>> \o SubSeq(s, k + 1, Len(s))

_build_st_import_statement == Import("streamlit", "__streamlit__")

_build_st_write_call(nodes) ==
    Call(Attribute(Name("__streamlit__"), "_transparent_write"), nodes)

ImportFamily == {"ImportFrom", "Import"}

\* mutant: the import always goes to the top
InsertIndex_Top(body) == 0

\* mutant: the docstring-then-import case inserts between the two
InsertIndex_AfterDocstring(body) ==
    IF Len(body) > 0 /\ body[1].kind \in ImportFamily
    THEN 1
    ELSE IF /\ Len(body) > 1
            /\ body[1].kind = "Expr" /\ body[1].value.kind = "Str"
            /\ body[2].kind \in ImportFamily
         THEN 1
         ELSE 0

\* the index _insert_import_statement passes to tree.body.insert
InsertIndex(body) ==
    IF Len(body) > 0 /\ body[1].kind \in ImportFamily
    THEN 1
    ELSE IF /\ Len(body) > 1
            /\ body[1].kind = "Expr" /\ body[1].value.kind = "Str"
            /\ body[2].kind \in ImportFamily
         THEN 2
         ELSE 0

\* mutant: a guarded injector, which leaves a root that has the import alone
_insert_import_statement_guarded(t) ==
    IF \E k \in DOMAIN t.body : t.body[k] = _build_st_import_statement
    THEN t
    ELSE [t EXCEPT !.body = ListInsert(t.body, InsertIndex(t.body),
                                       _build_st_import_statement)]

_insert_import_statement(t) ==
    LET st_import == _build_st_import_statement
    IN  [t EXCEPT !.body = ListInsert(t.body, InsertIndex(t.body), st_import)]

\* mutant: no rule for calls
_get_st_write_from_expr_no_call_rule(node, i, parent_type) ==
    IF /\ i = 0
       /\ node.value.kind = "Str"
       /\ parent_type \in {"FunctionDef", "Module"}
    THEN None
    ELSE IF node.value.kind = "Tuple"
    THEN _build_st_write_call(node.value.elts)
    ELSE IF node.value.kind = "Name"
    THEN _build_st_write_call(<<Str("**" \o node.value.id \o "**"), node.value>>)
    ELSE _build_st_write_call(<<node.value>>)

\* mutant: the docstring rule forgets the module
_get_st_write_from_expr_function_only(node, i, parent_type) ==
    IF node.value.kind = "Call"
    THEN None
    ELSE IF /\ i = 0
            /\ node.value.kind = "Str"
            /\ parent_type \in {"FunctionDef"}
    THEN None
    ELSE IF node.value.kind = "Tuple"
    THEN _build_st_write_call(node.value.elts)
    ELSE IF node.value.kind = "Name"
    THEN _build_st_write_call(<<Str("**" \o node.value.id \o "**"), node.value>>)
    ELSE _build_st_write_call(<<node.value>>)

\* mutant: a tuple is displayed whole
_get_st_write_from_expr_whole_tuple(node, i, parent_type) ==
    IF node.value.kind = "Call"
    THEN None
    ELSE IF /\ i = 0
            /\ node.value.kind = "Str"
            /\ parent_type \in {"FunctionDef", "Module"}
    THEN None
    ELSE IF node.value.kind = "Name"
    THEN _build_st_write_call(<<Str("**" \o node.value.id \o "**"), node.value>>)
    ELSE _build_st_write_call(<<node.value>>)

_get_st_write_from_expr(node, i, parent_type) ==
    IF node.value.kind = "Call"
    THEN None
    ELSE IF /\ i = 0
            /\ node.value.kind = "Str"
            /\ parent_type \in {"FunctionDef", "Module"}
    THEN None
    ELSE IF node.value.kind = "Tuple"
    THEN _build_st_write_call(node.value.elts)
    ELSE IF node.value.kind = "Str"
    THEN _build_st_write_call(<<node.value>>)
    ELSE IF node.value.kind = "Name"
    THEN _build_st_write_call(<<Str("**" \o node.value.id \o "**"), node.value>>)
    ELSE _build_st_write_call(<<node.value>>)

\* the ast.Expr branch of the loop body: node.value is overwritten in place
RewriteExpr(node, i, parent_type) ==
    LET value == _get_st_write_from_expr(node, i, parent_type)
    IN  IF value # None THEN [node EXCEPT !.value = value] ELSE node

RECURSIVE _modify_ast_subtree(_, _, _)
RECURSIVE VisitNode(_, _, _)
RECURSIVE VisitBody(_, _, _)

\* mutant: if statements are entered like function definitions
VisitNode_EntersIf(node, i, parent_type) ==
    IF node.kind \in {"FunctionDef", "With", "If"}
    THEN _modify_ast_subtree(node, "body", FALSE)
    ELSE IF node.kind = "Try"
    THEN LET n1 == [node EXCEPT !.handlers =
                       [j \in DOMAIN node.handlers |->
                           _modify_ast_subtree(node.handlers[j], "body", FALSE)]]
             finally_node == _modify_ast_subtree(n1, "finalbody", FALSE)
         IN  _modify_ast_subtree(finally_node, "body", FALSE)
    ELSE IF node.kind = "Expr"
    THEN RewriteExpr(node, i, parent_type)
    ELSE node

\* one iteration of `for i, node in enumerate(body)`: what body[i] is afterwards
VisitNode(node, i, parent_type) ==
    IF node.kind \in {"FunctionDef", "With"}
    THEN _modify_ast_subtree(node, "body", FALSE)
    ELSE IF node.kind = "Try"
    THEN LET n1 == [node EXCEPT !.handlers =
                       [j \in DOMAIN node.handlers |->
                           _modify_ast_subtree(node.handlers[j], "body", FALSE)]]
             finally_node == _modify_ast_subtree(n1, "finalbody", FALSE)
             n2 == [finally_node EXCEPT !.finalbody = finally_node.finalbody]
         IN  _modify_ast_subtree(n2, "body", FALSE)
    ELSE IF node.kind = "Expr"
    THEN RewriteExpr(node, i, parent_type)
    ELSE node

\* the loop from index i on
VisitBody(body, i, parent_type) ==
    IF i >= Len(body)
    THEN body
    ELSE VisitBody([body EXCEPT ![i + 1] = VisitNode(body[i + 1], i, parent_type)],
                   i + 1, parent_type)

_modify_ast_subtree(t, body_attr, is_root) ==
    LET walked == [t EXCEPT ![body_attr] = VisitBody(t[body_attr], 0, t.kind)]
    IN  IF is_root THEN _insert_import_statement(walked) ELSE walked

----------------------------------------------------------------------------
(* The trees the pass is run on: what ast.parse can hand to add_magic.     *)

PrintCall == Call(Name("print"), <<Num(1)>>)

\* simple statements that open a root sequence
SimpleStmts ==
    { Expr(Str("doc")), Expr(PrintCall), ImportFrom("__future__", "annotations") }

\* bodies of simple statements found inside blocks
LeafBodies ==
    { <<Expr(Str("doc")), Expr(Str("hello"))>>,
      <<Expr(Name("x")), Expr(PrintCall)>>,
      <<Expr(Tuple(<<Name("x"), Str("s")>>)), Expr(Attribute(Name("x"), "shape")),
        Expr(Name("y"))>> }

\* the block statements built around a body b
Wrap(b) ==
    { FunctionDef(b), With(b),
      Try(b, <<ExceptHandler(b), ExceptHandler(<<Pass>>)>>, b, b),
      Try(<<Pass>>, <<>>, <<>>, b),
      Compound("If", b) }

Blocks1 == UNION { Wrap(b) : b \in LeafBodies }

\* a body that holds a block: the block sits at index 1, after a string
Blocks2 == UNION { Wrap(<<Expr(Str("doc")), blk>>) : blk \in Blocks1 }

\* how a root sequence ends
Tails ==
    {<<>>}
    \cup { <<blk>> : blk \in Blocks1 \cup Blocks2 }
    \cup { <<Expr(e)>> : e \in { Name("x"),
                                 Tuple(<<Name("x"), Name("x")>>),
                                 Tuple(<<Tuple(<<Name("x"), Name("x")>>)>>),
                                 Num(1), Str("hello") } }
    \cup { <<Import("os", "None")>>, <<Assign(StoreName("x"), Num(1))>> }
    \cup { <<Compound(k, b)>> : k \in {"For", "While", "ClassDef"}, b \in LeafBodies }

RECURSIVE SeqsUpTo(_, _)
\* the sequences over S of length at most n
SeqsUpTo(S, n) ==
    IF n = 0
    THEN {<<>>}
    ELSE LET shorter == SeqsUpTo(S, n - 1)
         IN  shorter \cup { Append(s, x) : s \in shorter, x \in S }

Roots == { Module(p \o t) : p \in SeqsUpTo(SimpleStmts, MaxRootLen), t \in Tails }

----------------------------------------------------------------------------
(* Spec: the root pass and the import injector applied to a parsed tree.   *)

NoWalk == /\ stack = <<>> /\ log = <<>>
NoText == /\ code = <<>> /\ py3 = TRUE /\ ret = None

Init ==
    /\ tree \in Roots
    /\ orig = tree
    /\ op = "parse"
    /\ runs = 0
    /\ injects = 0
    /\ NoWalk
    /\ NoText

\* add_magic's `return _modify_ast_subtree(tree, is_root=True)`
ModifyRoot ==
    /\ runs + injects < MaxOps
    /\ tree' = _modify_ast_subtree(tree, "body", TRUE)
    /\ orig' = tree
    /\ op' = "modify"
    /\ runs' = runs + 1
    /\ UNCHANGED <<injects, stack, log, code, py3, ret>>

\* a call of _insert_import_statement(tree) on its own
InsertImport ==
    /\ runs + injects < MaxOps
    /\ tree' = _insert_import_statement(tree)
    /\ orig' = tree
    /\ op' = "insert"
    /\ injects' = injects + 1
    /\ UNCHANGED <<runs, stack, log, code, py3, ret>>

Next == ModifyRoot \/ InsertImport

Spec == Init /\ [][Next]_vars

----------------------------------------------------------------------------
(* Vocabulary of the properties.                                           *)

StImport == Import("streamlit", "__streamlit__")

IsDocstring(stmt) == stmt.kind = "Expr" /\ stmt.value.kind = "Str"
IsImport(stmt) == stmt.kind \in {"Import", "ImportFrom"}

\* s without its k-th element (1-based)
Without(s, k) == SubSeq(s, 1, k - 1) \o SubSeq(s, k + 1, Len(s))

CountStImports(body) == Cardinality({ k \in DOMAIN body : body[k] = StImport })

RECURSIVE SameShape(_, _)
\* b is statement a after a pass: the same kind of statement holding the
\* same number of statements in each sequence the pass enters; an
\* expression statement may hold another expression, any other statement
\* the pass does not enter is the very same
SameShapeSeq(s, t) ==
    /\ Len(s) = Len(t)
    /\ \A k \in DOMAIN s : SameShape(s[k], t[k])

SameShape(a, b) ==
    /\ a.kind = b.kind
    /\ IF a.kind = "Expr" THEN TRUE
       ELSE IF a.kind \in {"FunctionDef", "With", "ExceptHandler"}
       THEN SameShapeSeq(a.body, b.body)
       ELSE IF a.kind = "Try"
       THEN /\ SameShapeSeq(a.body, b.body)
            /\ SameShapeSeq(a.handlers, b.handlers)
            /\ SameShapeSeq(a.finalbody, b.finalbody)
            /\ a.orelse = b.orelse
       ELSE a = b

\* the root sequence after a root pass is the one before it with the
\* synthetic import put in as element k (1-based)
ImportPutAt(k) ==
    /\ k \in DOMAIN tree.body
    /\ tree.body[k] = StImport
    /\ SameShapeSeq(orig.body, Without(tree.body, k))

----------------------------------------------------------------------------
(* C1  Statement count and order.                                          *)

\* C1: after a root pass every sequence the pass processes holds the same
\* number of statements in the same order as before, except the root
\* sequence, which holds exactly one more, the injected import, with the
\* original statements in their original relative order.
C1_StatementCount ==
    op = "modify" =>
        /\ Len(tree.body) = Len(orig.body) + 1
        /\ \E k \in DOMAIN tree.body : ImportPutAt(k)

\* a root pass over a root holding a try block with handlers, a finally
\* body and nested statements
C1_Witness ==
    /\ op = "modify"
    /\ \E k \in DOMAIN orig.body :
          /\ orig.body[k].kind = "Try"
          /\ Len(orig.body[k].handlers) = 2
          /\ Len(orig.body[k].finalbody) = 2
          /\ orig.body[k].body[2].kind = "FunctionDef"
    /\ Len(tree.body) = Len(orig.body) + 1

----------------------------------------------------------------------------
(* C3  Position of a leading docstring or import.                          *)

\* C3 as stated: a docstring or an import-family statement that is the
\* first root statement before the pass is the first root statement after.
C3_LeadingStaysFirst ==
    (/\ op = "modify"
     /\ Len(orig.body) > 0
     /\ (IsDocstring(orig.body[1]) \/ IsImport(orig.body[1])))
        => tree.body[1] = orig.body[1]

DocThenImport(body) ==
    /\ Len(body) > 1
    /\ IsDocstring(body[1])
    /\ IsImport(body[2])

\* C3 as amended: a leading import-family statement stays first; a leading
\* docstring stays first when an import-family statement follows it (both
\* keep their places); a leading docstring followed by anything else, or by
\* nothing, ends at index 1, behind the synthetic import at index 0.
C3_LeadingImportStaysFirst ==
    (op = "modify" /\ Len(orig.body) > 0) =>
        /\ IsImport(orig.body[1]) => tree.body[1] = orig.body[1]
        /\ DocThenImport(orig.body) =>
              /\ tree.body[1] = orig.body[1]
              /\ tree.body[2] = orig.body[2]
              /\ tree.body[3] = StImport
        /\ (IsDocstring(orig.body[1]) /\ ~DocThenImport(orig.body)) =>
              /\ tree.body[1] = StImport
              /\ tree.body[2] = orig.body[1]

\* a root pass over a root that opens with a docstring and a future-import
C3_Witness ==
    /\ op = "modify"
    /\ runs = 1
    /\ DocThenImport(orig.body)
    /\ orig.body[2].kind = "ImportFrom"
    /\ tree.body[3] = StImport

----------------------------------------------------------------------------
(* C4  Running the injector twice.                                         *)

\* C4 as stated: after the Import Injector has run twice on a root
\* sequence, the sequence holds exactly one synthetic import.
C4_InjectionIdempotent ==
    (injects = 2 /\ runs = 0) => CountStImports(tree.body) = 1

\* C4 as amended: every run of the Import Injector, on its own or at the
\* end of a root pass, inserts one more synthetic import; after two runs
\* on the same root the sequence holds two, after n runs n.
C4_OneImportPerRun ==
    /\ CountStImports(tree.body) = runs + injects
    /\ op = "insert" =>
          /\ Len(tree.body) = Len(orig.body) + 1
          /\ CountStImports(tree.body) = CountStImports(orig.body) + 1

\* the injector has run twice on one root
C4_Witness ==
    /\ injects = 2
    /\ runs = 0
    /\ op = "insert"
    /\ CountStImports(tree.body) = 2

----------------------------------------------------------------------------
(* C8  The insertion index.                                                *)

\* the three-case policy, as an index into the sequence before insertion
PolicyIndex(body) ==
    CASE Len(body) >= 1 /\ IsImport(body[1]) -> 1
      [] Len(body) >= 1 /\ ~IsImport(body[1]) /\ DocThenImport(body) -> 2
      [] OTHER -> 0

FutureThenPrint ==
    <<ImportFrom("__future__", "annotations"), Expr(PrintCall)>>

\* C8: the synthetic import is inserted at index 1 if the first statement
\* is an import-family statement, else at index 2 if the first is a
\* docstring and the second an import-family statement, else at index 0
\* (the empty root included); a root `from __future__ import annotations`,
\* `print(1)` gets the import at index 1 and keeps the call as it is.
C8_InsertionIndex ==
    /\ op \in {"modify", "insert"} =>
          /\ ImportPutAt(PolicyIndex(orig.body) + 1)
          /\ op = "insert" =>
                Without(tree.body, PolicyIndex(orig.body) + 1) = orig.body
    /\ (op = "modify" /\ orig.body = FutureThenPrint) =>
          tree.body = <<FutureThenPrint[1], StImport, FutureThenPrint[2]>>

\* the future-import example has been run
C8_Witness ==
    /\ op = "modify"
    /\ orig.body = FutureThenPrint
    /\ tree.body[2] = StImport

----------------------------------------------------------------------------
(* The statement sequences a pass processes, and their statements before   *)
(* and after.                                                              *)

RECURSIVE NodeAt(_, _)
\* the node reached from t along path, a sequence of <<attribute, index>>
NodeAt(t, path) ==
    IF path = <<>>
    THEN t
    ELSE NodeAt(t[path[1][1]][path[1][2]], Tail(path))

SeqAt(t, id) == NodeAt(t, id.path)[id.attr]

RECURSIVE SeqIds(_, _, _)
RECURSIVE StmtSeqIds(_, _)
\* the sequence `attr` of the node at `path`, and those owned by function
\* definitions, with blocks, try blocks and handlers below it
SeqIds(node, path, attr) ==
    {[path |-> path, attr |-> attr]}
    \cup UNION { StmtSeqIds(node[attr][i], Append(path, <<attr, i>>)) :
                    i \in DOMAIN node[attr] }

StmtSeqIds(n, p) ==
    IF n.kind \in {"FunctionDef", "With"}
    THEN SeqIds(n, p, "body")
    ELSE IF n.kind = "Try"
    THEN SeqIds(n, p, "body")
         \cup SeqIds(n, p, "finalbody")
         \cup UNION { SeqIds(n.handlers[j], Append(p, <<"handlers", j>>), "body") :
                         j \in DOMAIN n.handlers }
    ELSE {}

ProcSeqs(t) == SeqIds(t, <<>>, "body")

\* a root pass has just run and its result lines up with the tree before it
Passed == op = "modify" /\ \E k \in DOMAIN tree.body : ImportPutAt(k)

\* the tree after the pass with the injected import taken out again, so
\* that every statement has the index it had before the pass
Walked ==
    Module(Without(tree.body, CHOOSE k \in DOMAIN tree.body : ImportPutAt(k)))

\* the statements of the processed sequences: where each one is, what it
\* was before the pass and what it is after
Stmts ==
    UNION { { [owner |-> NodeAt(orig, id.path).kind, depth |-> Len(id.path),
               i |-> k - 1,
               before |-> SeqAt(orig, id)[k], after |-> SeqAt(Walked, id)[k]] :
                  k \in DOMAIN SeqAt(orig, id) } :
            id \in ProcSeqs(orig) }

DisplayFunc == Attribute(Name("__streamlit__"), "_transparent_write")

IsDisplayCall(e) == e.kind = "Call" /\ e.func = DisplayFunc

IsCallStmt(stmt) == stmt.kind = "Expr" /\ stmt.value.kind = "Call"

\* rule 2: a string at index 0 of a function body or of the root
IsExemptDocstring(st) ==
    /\ st.i = 0
    /\ IsDocstring(st.before)
    /\ st.owner \in {"FunctionDef", "Module"}

----------------------------------------------------------------------------
(* C5  Rule 1: call statements.                                            *)

\* C5: an expression statement whose expression is a Call, at any index of
\* any processed sequence, is the same after the pass; a display call made
\* by an earlier pass is such a statement, so a second pass never puts a
\* display call inside a display call.
C5_CallsUnchanged ==
    op = "modify" =>
        /\ Passed
        /\ \A st \in Stmts : IsCallStmt(st.before) => st.after = st.before

\* a second pass has met, inside a block, a display call the first pass
\* made, and at index 0 of the root a call the user wrote
C5_Witness ==
    /\ Passed
    /\ runs = 2
    /\ \E st \in Stmts :
          /\ st.depth > 0
          /\ IsCallStmt(st.before)
          /\ IsDisplayCall(st.before.value)
          /\ st.after = st.before
    /\ \E st \in Stmts :
          /\ st.depth = 0
          /\ st.before = Expr(PrintCall)
          /\ st.after = st.before

----------------------------------------------------------------------------
(* C6  Rule 2: docstrings.                                                 *)

\* C6: a string-literal expression statement at index 0 (before the import
\* is injected) of a sequence owned by a function definition or the root
\* is the same after the pass.
C6_DocstringUnchanged ==
    op = "modify" =>
        /\ Passed
        /\ \A st \in Stmts : IsExemptDocstring(st) => st.after = st.before

\* a pass has left alone the docstring of the root and the docstring of a
\* function definition inside a block
C6_Witness ==
    /\ Passed
    /\ runs = 1
    /\ \E st \in Stmts :
          st.owner = "Module" /\ IsExemptDocstring(st) /\ st.after = st.before
    /\ \E st \in Stmts :
          /\ st.owner = "FunctionDef"
          /\ st.depth > 1
          /\ IsExemptDocstring(st)
          /\ st.after = st.before

----------------------------------------------------------------------------
(* C7  Rules 3 to 6: the display call.                                     *)

\* the arguments of the display call, by the kind of the expression
ExpectedArgs(e) ==
    CASE e.kind = "Tuple" -> e.elts
      [] e.kind = "Str" -> <<e>>
      [] e.kind = "Name" -> <<[kind |-> "Str", s |-> "**" \o e.id \o "**"], e>>
      [] OTHER -> <<e>>

----------------------------------------------------------------------------
(* C9  Statements the walk has no case for.                                *)

WalkedKinds == {"FunctionDef", "With", "Try", "Expr"}

\* C9: a statement of a processed sequence that is no function definition,
\* with block, try block or expression statement is the same after the
\* pass with everything inside it: an expression statement in the body of
\* an if, for, while or class statement is not rewritten.
C9_OtherStatementsUntouched ==
    op = "modify" =>
        /\ Passed
        /\ \A st \in Stmts : st.before.kind \notin WalkedKinds => st.after = st.before

\* a pass has gone by an if statement that sits inside a block and holds
\* an identifier statement
C9_Witness ==
    /\ Passed
    /\ \E st \in Stmts :
          /\ st.depth > 0
          /\ st.before.kind = "If"
          /\ \E k \in DOMAIN st.before.body : st.before.body[k] = Expr(Name("x"))
          /\ st.after = st.before

----------------------------------------------------------------------------
(* SpecWalk: _modify_ast_subtree step by step.  A frame of the stack is    *)
(* one activation: the node it was called on (by its path from the root),  *)
(* body_attr, is_root, the loop index i, the handler index j and the place *)
(* in the code it stands at.                                               *)

RECURSIVE ReplaceAt(_, _, _)
\* t with the node at path replaced by new
ReplaceAt(t, path, new) ==
    IF path = <<>>
    THEN new
    ELSE [t EXCEPT ![path[1][1]] =
             [@ EXCEPT ![path[1][2]] = ReplaceAt(@, Tail(path), new)]]

Frame(path, body_attr, is_root) ==
    [path |-> path, attr |-> body_attr, is_root |-> is_root,
     i |-> 0, j |-> 0, pc |-> "loop"]

SeqId(path, body_attr) == [path |-> path, attr |-> body_attr]
ImportEvent == [path |-> <<>>, attr |-> "import"]

Top == stack[Len(stack)]
TopBody == NodeAt(tree, Top.path)[Top.attr]
\* the loop's `node`, and where it is
Cur == TopBody[Top.i + 1]
CurPath == Append(Top.path, <<Top.attr, Top.i + 1>>)
InLoop == stack # <<>> /\ Top.pc = "loop" /\ Top.i < Len(TopBody)

\* the activation on top moves on / calls _modify_ast_subtree(path, attr)
Goto(f) == [stack EXCEPT ![Len(stack)] = f]
CallFrom(f, path, body_attr) == Append(Goto(f), Frame(path, body_attr, FALSE))

InitWalk ==
    /\ tree \in Roots
    /\ orig = tree
    /\ op = "walk"
    /\ runs = 0
    /\ injects = 0
    /\ stack = <<Frame(<<>>, "body", TRUE)>>
    /\ log = <<SeqId(<<>>, "body")>>
    /\ NoText

\* lines 40-41: the call on a function definition or with block
EnterBlock ==
    /\ InLoop
    /\ Cur.kind \in {"FunctionDef", "With"}
    /\ stack' = CallFrom([Top EXCEPT !.pc = "store"], CurPath, "body")
    /\ log' = Append(log, SeqId(CurPath, "body"))
    /\ UNCHANGED <<tree, orig, op, runs, injects, code, py3, ret>>

\* line 44: a try block; the handler loop starts
EnterTry ==
    /\ InLoop
    /\ Cur.kind = "Try"
    /\ stack' = Goto([Top EXCEPT !.pc = "handlers", !.j = 0])
    /\ UNCHANGED <<tree, orig, op, runs, injects, log, code, py3, ret>>

\* lines 45-46: the call on handler j
WalkHandler ==
    /\ stack # <<>>
    /\ Top.pc = "handlers"
    /\ Top.j < Len(Cur.handlers)
    /\ LET h == Append(CurPath, <<"handlers", Top.j + 1>>)
       IN  /\ stack' = CallFrom([Top EXCEPT !.j = @ + 1], h, "body")
           /\ log' = Append(log, SeqId(h, "body"))
    /\ UNCHANGED <<tree, orig, op, runs, injects, code, py3, ret>>

\* mutant: the finally body is passed over
WalkFinally_Skipped ==
    /\ stack # <<>>
    /\ Top.pc = "handlers"
    /\ Top.j >= Len(Cur.handlers)
    /\ stack' = Goto([Top EXCEPT !.pc = "trybody"])
    /\ UNCHANGED <<tree, orig, op, runs, injects, log, code, py3, ret>>

\* line 47: the call on the try block with body_attr='finalbody'
WalkFinally ==
    /\ stack # <<>>
    /\ Top.pc = "handlers"
    /\ Top.j >= Len(Cur.handlers)
    /\ stack' = CallFrom([Top EXCEPT !.pc = "copy"], CurPath, "finalbody")
    /\ log' = Append(log, SeqId(CurPath, "finalbody"))
    /\ UNCHANGED <<tree, orig, op, runs, injects, code, py3, ret>>

\* line 48: node.finalbody = finally_node.finalbody (finally_node is node)
CopyFinally ==
    /\ stack # <<>>
    /\ Top.pc = "copy"
    /\ tree' = ReplaceAt(tree, CurPath, [Cur EXCEPT !.finalbody = Cur.finalbody])
    /\ stack' = Goto([Top EXCEPT !.pc = "trybody"])
    /\ UNCHANGED <<orig, op, runs, injects, log, code, py3, ret>>

\* line 49: the call on the try block's own body
WalkTryBody ==
    /\ stack # <<>>
    /\ Top.pc = "trybody"
    /\ stack' = CallFrom([Top EXCEPT !.pc = "store"], CurPath, "body")
    /\ log' = Append(log, SeqId(CurPath, "body"))
    /\ UNCHANGED <<tree, orig, op, runs, injects, code, py3, ret>>

\* lines 41, 49: body[i] = the node returned (the node itself); next i
Store ==
    /\ stack # <<>>
    /\ Top.pc = "store"
    /\ stack' = Goto([Top EXCEPT !.pc = "loop", !.i = @ + 1])
    /\ UNCHANGED <<tree, orig, op, runs, injects, log, code, py3, ret>>

\* lines 52-55: an expression statement; next i
RewriteStmt ==
    /\ InLoop
    /\ Cur.kind = "Expr"
    /\ tree' = ReplaceAt(tree, CurPath,
                         RewriteExpr(Cur, Top.i, NodeAt(tree, Top.path).kind))
    /\ stack' = Goto([Top EXCEPT !.i = @ + 1])
    /\ UNCHANGED <<orig, op, runs, injects, log, code, py3, ret>>

\* line 36 again: a statement of any other kind; next i
SkipStmt ==
    /\ InLoop
    /\ Cur.kind \notin {"FunctionDef", "With", "Try", "Expr"}
    /\ stack' = Goto([Top EXCEPT !.i = @ + 1])
    /\ UNCHANGED <<tree, orig, op, runs, injects, log, code, py3, ret>>

\* line 57: the loop is over
EndLoop ==
    /\ stack # <<>>
    /\ Top.pc = "loop"
    /\ Top.i >= Len(TopBody)
    /\ stack' = Goto([Top EXCEPT !.pc = IF Top.is_root THEN "inject" ELSE "fix"])
    /\ UNCHANGED <<tree, orig, op, runs, injects, log, code, py3, ret>>

\* line 60: _insert_import_statement(tree)
Inject ==
    /\ stack # <<>>
    /\ Top.pc = "inject"
    /\ tree' = ReplaceAt(tree, Top.path, _insert_import_statement(NodeAt(tree, Top.path)))
    /\ stack' = Goto([Top EXCEPT !.pc = "fix"])
    /\ log' = Append(log, ImportEvent)
    /\ UNCHANGED <<orig, op, runs, injects, code, py3, ret>>

\* lines 62-64: fix_missing_locations (positions are not modelled); return
Return ==
    /\ stack # <<>>
    /\ Top.pc = "fix"
    /\ stack' = SubSeq(stack, 1, Len(stack) - 1)
    /\ UNCHANGED <<tree, orig, op, runs, injects, log, code, py3, ret>>

NextWalk ==
    \/ EnterBlock
    \/ EnterTry
    \/ WalkHandler
    \/ WalkFinally
    \/ CopyFinally
    \/ WalkTryBody
    \/ Store
    \/ RewriteStmt
    \/ SkipStmt
    \/ EndLoop
    \/ Inject
    \/ Return

\* the pass is one sequential call: a step that can be taken is taken
SpecWalk == InitWalk /\ [][NextWalk]_vars /\ WF_vars(NextWalk)

Done == stack = <<>>

\* the walk, step by step, ends with the tree _modify_ast_subtree gives
WalkAgreesWithPass == Done => tree = _modify_ast_subtree(orig, "body", TRUE)

----------------------------------------------------------------------------
(* C10  Termination, and every sequence once.                              *)

Times(id) == Cardinality({ k \in DOMAIN log : log[k] = id })
Position(id) == CHOOSE k \in DOMAIN log : log[k] = id

\* the try blocks of the processed sequences, by their paths
TryPaths ==
    UNION { { Append(id.path, <<id.attr, k>>) :
                 k \in { n \in DOMAIN SeqAt(orig, id) : SeqAt(orig, id)[n].kind = "Try" } } :
            id \in ProcSeqs(orig) }

Logged(id) == \E k \in DOMAIN log : log[k] = id
LoggedBefore(a, b) == Logged(a) /\ Position(a) < Position(b)

\* no sequence is entered twice, and none but the processed ones
EnteredAtMostOnce ==
    /\ \A k1, k2 \in DOMAIN log : log[k1] = log[k2] => k1 = k2
    /\ \A k \in DOMAIN log : log[k] = ImportEvent \/ log[k] \in ProcSeqs(orig)

\* a try block's own body is entered after its handlers and its finally body
HandlersAndFinallyFirst ==
    \A p \in TryPaths :
        Logged(SeqId(p, "body")) =>
            /\ LoggedBefore(SeqId(p, "finalbody"), SeqId(p, "body"))
            /\ \A j \in DOMAIN NodeAt(orig, p).handlers :
                  LoggedBefore(SeqId(Append(p, <<"handlers", j>>), "body"),
                               SeqId(p, "body"))

\* at the end every processed sequence has been entered once and the
\* import was injected once, into the root, after all of them
AllOnceThenImport ==
    Done =>
        /\ \A id \in ProcSeqs(orig) : Times(id) = 1
        /\ Len(log) = Cardinality(ProcSeqs(orig)) + 1
        /\ log[Len(log)] = ImportEvent
        /\ CountStImports(tree.body) = 1
        /\ Len(tree.body) = Len(orig.body) + 1

\* C10: on every finite tree the pass terminates, and then every sequence
\* owned by the root, a function definition, a with block, a try block's
\* main body, a handler or a finally body has been processed exactly once,
\* the handlers and the finally body of a try block before its main body,
\* and the import has been injected once, at the root, after all of them.
C10_TerminatesEachOnce ==
    /\ <>Done
    /\ [](EnteredAtMostOnce /\ HandlersAndFinallyFirst /\ AllOnceThenImport)

\* the walk has ended on a tree with a try block inside a try block
C10_Witness ==
    /\ Done
    /\ op = "walk"
    /\ \E p \in TryPaths :
          /\ Len(p) > 1
          /\ Len(NodeAt(orig, p).handlers) = 2
          /\ Logged(SeqId(p, "finalbody"))
    /\ log[Len(log)] = ImportEvent

----------------------------------------------------------------------------
(* SpecE2E: add_magic on program text.  The text is a sequence of lines,   *)
(* each a sequence of tokens; ast.parse is modelled for lines that are     *)
(* simple statements: an import, an assignment `name = expressions`, or    *)
(* an expression list.  In an expression list, as in Python's grammar, a   *)
(* comma makes a tuple: `e,` is the tuple of the one element e, and        *)
(* parentheses only group.                                                 *)

Tok(type, string) == [type |-> type, string |-> string]
LPar == Tok("OP", "(")
RPar == Tok("OP", ")")
Comma == Tok("OP", ",")

\* the value of a NUMBER token of one digit
IntOf(string) == CHOOSE n \in 0..9 : ToString(n) = string

RECURSIVE ParseItems(_, _, _, _)
RECURSIVE ParseTrailers(_, _, _)
RECURSIVE ParseAtom(_, _)

\* atom trailer*: an atom and the calls made on it
ParseExpr(toks, pos) ==
    LET a == ParseAtom(toks, pos)
    IN  ParseTrailers(toks, a.node, a.pos)

\* expr (',' expr)* [',']: the expressions up to a ')' or the end of the
\* line, and whether a comma was met
ParseItems(toks, pos, elts, commas) ==
    IF pos > Len(toks) \/ toks[pos] = RPar
    THEN [elts |-> elts, commas |-> commas, pos |-> pos]
    ELSE LET e == ParseExpr(toks, pos)
         IN  IF e.pos <= Len(toks) /\ toks[e.pos] = Comma
             THEN ParseItems(toks, e.pos + 1, Append(elts, e.node), TRUE)
             ELSE [elts |-> Append(elts, e.node), commas |-> commas, pos |-> e.pos]

\* an expression list: a tuple if it has a comma, else its one expression
ParseTestlist(toks, pos) ==
    LET r == ParseItems(toks, pos, <<>>, FALSE)
    IN  [node |-> IF r.commas THEN Tuple(r.elts) ELSE r.elts[1], pos |-> r.pos]

ParseAtom(toks, pos) ==
    LET t == toks[pos]
    IN  IF t.type = "NAME" THEN [node |-> Name(t.string), pos |-> pos + 1]
        ELSE IF t.type = "NUMBER" THEN [node |-> Num(IntOf(t.string)), pos |-> pos + 1]
        ELSE IF t.type = "STRING" THEN [node |-> Str(t.string), pos |-> pos + 1]
        ELSE IF toks[pos + 1] = RPar
        THEN [node |-> Tuple(<<>>), pos |-> pos + 2]
        ELSE LET r == ParseTestlist(toks, pos + 1)
             IN  [node |-> r.node, pos |-> r.pos + 1]

ParseTrailers(toks, node, pos) ==
    IF pos <= Len(toks) /\ toks[pos] = LPar
    THEN LET r == ParseItems(toks, pos + 1, <<>>, FALSE)
         IN  ParseTrailers(toks, Call(node, r.elts), r.pos + 1)
    ELSE [node |-> node, pos |-> pos]

ParseStmt(toks) ==
    IF toks[1] = Tok("NAME", "import")
    THEN Import(toks[2].string, "None")
    ELSE IF toks[1] = Tok("NAME", "from")
    THEN ImportFrom(toks[2].string, toks[4].string)
    ELSE IF Len(toks) > 1 /\ toks[2] = Tok("OP", "=")
    THEN Assign(StoreName(toks[1].string), ParseTestlist(toks, 3).node)
    ELSE Expr(ParseTestlist(toks, 1).node)

\* ast.parse(code, script_path, 'exec')
ast_parse(text) == Module([k \in DOMAIN text |-> ParseStmt(text[k])])

TokX == Tok("NAME", "x")
LineAssign == <<TokX, Tok("OP", "="), Tok("NUMBER", "1")>>
LineName == <<TokX>>
LineString == <<Tok("STRING", "hello")>>
LinePair == <<LPar, TokX, Comma, TokX, RPar>>
LinePairComma == <<LPar, TokX, Comma, TokX, RPar, Comma>>
LineCall == <<Tok("NAME", "print"), LPar, Tok("NUMBER", "1"), RPar>>
LineFuture ==
    <<Tok("NAME", "from"), Tok("NAME", "__future__"),
      Tok("NAME", "import"), Tok("NAME", "annotations")>>

Lines ==
    { LineAssign, LineName, LineString, LinePair, LinePairComma, LineCall, LineFuture }

Programs == SeqsUpTo(Lines, MaxLines)

InitE2E ==
    /\ code \in Programs
    /\ py3 \in BOOLEAN
    /\ ret = None
    /\ tree = None
    /\ orig = None
    /\ op = "source"
    /\ runs = 0
    /\ injects = 0
    /\ NoWalk

add_magic ==
    /\ op = "source"
    /\ op' = "add_magic"
    /\ IF py3
       THEN /\ tree' = _modify_ast_subtree(ast_parse(code), "body", TRUE)
            /\ orig' = ast_parse(code)
            /\ ret' = tree'
            /\ runs' = runs + 1
       ELSE /\ ret' = code
            /\ UNCHANGED <<tree, orig, runs>>
    /\ UNCHANGED <<injects, stack, log, code, py3>>

NextE2E == add_magic

SpecE2E == InitE2E /\ [][NextE2E]_vars

----------------------------------------------------------------------------
(* C2  The four-statement program.                                         *)

\* x = 1 / x / 'hello' / (x, x),
C2Program == <<LineAssign, LineName, LineString, LinePairComma>>

Display(args) == Expr(Call(DisplayFunc, args))

\* C2 as stated (read for Python 3): the root is the import at index 0, the
\* assignment untouched, and display calls with the arguments
\* ["**x**", x], ["hello"] and, for `(x, x),`, the two arguments [x, x].
C2_EndToEnd ==
    (op = "add_magic" /\ py3 /\ code = C2Program) =>
        ret.body = << StImport,
                      Assign(StoreName("x"), Num(1)),
                      Display(<<Str("**x**"), Name("x")>>),
                      Display(<<Str("hello")>>),
                      Display(<<Name("x"), Name("x")>>) >>

\* C2 as amended: under Python 3 the root is the import at index 0, the
\* assignment untouched, display calls with the arguments ["**x**", x] and
\* ["hello"], and for `(x, x),` a display call with one argument, the
\* tuple (x, x): the trailing comma makes a tuple of one element, and the
\* elements of that tuple are the arguments.  Without the trailing comma,
\* `(x, x)` gives the two arguments [x, x].  Under Python 2 add_magic
\* returns the text as it is.
C2_EndToEndOneTuple ==
    /\ (op = "add_magic" /\ py3 /\ code = C2Program) =>
          ret.body = << StImport,
                        Assign(StoreName("x"), Num(1)),
                        Display(<<Str("**x**"), Name("x")>>),
                        Display(<<Str("hello")>>),
                        Display(<<Tuple(<<Name("x"), Name("x")>>)>>) >>
    /\ (op = "add_magic" /\ py3 /\ code = <<LinePair>>) =>
          ret.body = << StImport, Display(<<Name("x"), Name("x")>>) >>
    /\ (op = "add_magic" /\ ~py3) => ret = code

\* add_magic has run on the four-statement program under Python 3
C2_Witness ==
    /\ op = "add_magic"
    /\ py3
    /\ code = C2Program
    /\ Len(ret.body) = 5
    /\ ret.body[5].value.args = <<Tuple(<<Name("x"), Name("x")>>)>>

====
